---- MODULE Spec2Model ----
(***************************************************************************)
(* Model of model/GFS/GFS_controller.py (class GFSController): the fuzzy   *)
(* platooning decision module.                                             *)
(*                                                                         *)
(* Units.  Every length, coordinate and speed is an integer number of      *)
(* hundredths (4.5 m is 450, 150 m is 15000, the sentinel -1 is -100).     *)
(* Signal codes are the raw bit patterns (0, 1, 2, 8).  An evaluator       *)
(* output is in hundredths (1.0 is 100); an acceleration is in units of    *)
(* 10^-4 and a desired speed in units of 10^-6, so that                    *)
(* 3.55 * out - 0.95 and cur_speed + accln * dt are exact.                 *)
(*                                                                         *)
(* Indexing.  Python lists are 0-based, TLA+ sequences 1-based: Python     *)
(* index k is index k + 1 here (distances[2] is distances[3]).             *)
(***************************************************************************)
EXTENDS Integers, Sequences, FiniteSets, TLC

VARIABLES
    world,          \* the simulator: vehicle id -> pose, speed, road, light
    platoon,        \* platooning_manager.vehicle_manager_list (vehicle ids)
    sensor_range,   \* self.sensor_range
    dt,             \* self.dt
    pc,             \* "idle", "loop" (inside getBestMergePosition), "done", "error"
    op,             \* the public operation last called
    context,        \* veh_context of the last call
    inputs,         \* inputs (the feature vector) of the last call
    j,              \* loop index of getBestMergePosition
    evals,          \* the vectors handed to gfs_pl_score.eval_op, in call order
    all_scores,     \* all_scores
    outs,           \* what a speed model's eval_op answered
    result,         \* what the last call returned
    err             \* the exception the last call raised

vars == <<world, platoon, sensor_range, dt, pc, op, context, inputs, j, evals,
          all_scores, outs, result, err>>

(***************************************************************************)
(* Bounds of the model.                                                    *)
(***************************************************************************)
NumOthers == 3          \* Spec: vehicles in the world besides the controlled one
NumNeighbours == 2      \* SpecExtract: vehicles besides the controlled one
MaxScore == 1           \* the slot scorer answers a score in 0..MaxScore

Ego == 0                \* id of the controlled (merging / leader) vehicle

\* world.get_actors().filter('vehicle.*')
Vehicles == DOMAIN world

NoVehicle == -1         \* Python None as a vehicle handle

(***************************************************************************)
(* Small helpers standing for Python built-ins.                            *)
(***************************************************************************)
Abs(n) == IF n < 0 THEN -n ELSE n

Min(S) == CHOOSE m \in S : \A n \in S : m <= n

Max(S) == CHOOSE m \in S : \A n \in S : m >= n

\* list(d.keys()) of a dict filled while iterating world.get_actors(): the
\* actors come in id order, so the keys are the ids in increasing order.
RECURSIVE SortedSeq(_)
SortedSeq(S) == IF S = {} THEN <<>> ELSE <<Min(S)>> \o SortedSeq(S \ {Min(S)})

\* [f(x) for x in s if p(x)] keeps the order of s.
RECURSIVE SelectSeq2(_, _)
SelectSeq2(s, keep) ==
    IF s = <<>> THEN <<>>
    ELSE (IF Head(s) \in keep THEN <<Head(s)>> ELSE <<>>) \o SelectSeq2(Tail(s), keep)

(***************************************************************************)
(* CoordinateAdapter: getPosition, getLane, getLaneIndex, getSignal.       *)
(***************************************************************************)
\* x, y = vehicle.get_location().x, -1 * vehicle.get_location().y
getPosition(v) == <<world[v].x, -1 * world[v].y>>

\* get_speed(vehicle, True): the speed of the vehicle in m/s
get_speed(v) == world[v].speed

\* lane_ID = edge_name + '_' + str(output_ln), kept as the pair <<edge_name, output_ln>>
getLane(v) ==
    LET carla_ln == world[v].lane_id
        carla_edge == world[v].road_id
    IN  IF carla_edge \in {10, 5, 3} THEN <<"gneE0", carla_ln + 3>>
        ELSE IF carla_edge \in {2, 12, 11} THEN <<"gneE1", carla_ln + 2>>
        ELSE IF carla_edge = 1 THEN <<"gneE4", carla_ln + 4>>
        ELSE IF carla_edge \in {8, 0, 9} THEN <<"gneE5", carla_ln + 3>>
        ELSE IF carla_edge = 25 THEN <<":gneJ6_0", carla_ln + 1>>
        ELSE IF carla_edge = 29 THEN <<":gneJ6_0", carla_ln + 3>>
        ELSE IF carla_edge = 14 THEN <<":gneJ1_0", 0>>
        ELSE IF carla_edge = 19 THEN <<":gneJ1_1", carla_ln + 2>>
        ELSE <<"None", 0>>

getLaneIndex(v) ==
    LET carla_ln == world[v].lane_id
        carla_edge == world[v].road_id
    IN  IF carla_edge \in {7, 16, 2} THEN carla_ln + 3
        ELSE IF carla_edge \in {1, 39, 8} THEN carla_ln + 2
        ELSE IF carla_edge = 0 THEN carla_ln + 4
        ELSE IF carla_edge \in {5, 46, 6} THEN carla_ln + 3
        ELSE IF carla_edge = 30 THEN carla_ln + 1
        ELSE IF carla_edge = 34 THEN carla_ln + 3
        ELSE IF carla_edge \in {21, 3} THEN 0
        ELSE IF carla_edge \in {25, 4} THEN carla_ln + 2
        ELSE 0

getSignal(v) ==
    LET signal == world[v].light
    IN  IF signal = "NONE" THEN 0
        ELSE IF signal = "RightBlinker" THEN 1
        ELSE IF signal = "LeftBlinker" THEN 2
        ELSE IF signal = "Brake" THEN 8
        ELSE 0

(***************************************************************************)
(* ContextSensor: getContext.  The record fields k64, k66, k81, k82, k91   *)
(* are the integer keys 64, 66, 81, 82, 91 of the per-vehicle dict.        *)
(***************************************************************************)
\* mutant of InRange: a vehicle exactly at the sensing radius is left out
InRange_Strict(ref, v) ==
    LET p == getPosition(ref)
        q == getPosition(v)
    IN  /\ sensor_range >= 0
        /\ (p[1] - q[1]) * (p[1] - q[1]) + (p[2] - q[2]) * (p[2] - q[2])
              < sensor_range * sensor_range

\* math.sqrt((x - x1) ** 2 + (y - y1) ** 2) <= self.sensor_range
InRange(ref, v) ==
    LET p == getPosition(ref)
        q == getPosition(v)
    IN  /\ sensor_range >= 0
        /\ (p[1] - q[1]) * (p[1] - q[1]) + (p[2] - q[2]) * (p[2] - q[2])
              <= sensor_range * sensor_range

getContext(vehicle) ==
    [v \in {w \in Vehicles : InRange(vehicle, w)} |->
        [k64 |-> world[v].speed,
         k66 |-> getPosition(v),
         k81 |-> getLane(v),
         k82 |-> getLaneIndex(v),
         k91 |-> getSignal(v)]]

(***************************************************************************)
(* FeatureExtractor: getInputs2FIS.                                        *)
(***************************************************************************)
Y_ML == <<-750, -450, -150>>    \* carla y coordinates for lane centers

NoLane == 0                     \* v_y was never assigned

\* veh_edge: the lookup in the snapshot is commented out, the name is fixed
VehEdge(veh_name, ctx) == <<"gneE4", 0>>

\* min(...) / max(...) inside try/except: <<>> stands for the [] of the except branch
MinOrEmpty(S) == IF S = {} THEN <<>> ELSE <<Min(S)>>

MaxOrEmpty(S) == IF S = {} THEN <<>> ELSE <<Max(S)>>

\* distances = [150] * 6, speeds = [50] * 6, signals = [0] * 6
InitSlots ==
    [distances |-> <<15000, 15000, 15000, 15000, 15000, 15000>>,
     speeds |-> <<5000, 5000, 5000, 5000, 5000, 5000>>,
     signals |-> <<0, 0, 0, 0, 0, 0>>]

\* if dist: distances[k] = abs(dist); speeds[k] = veh[2][ids[0]][64];
\*          signals[k] = veh[2][ids[0]][91]        (k is the TLA+ index)
WriteSlot(s, k, dist, ids, ctx) ==
    IF dist = <<>> THEN s
    ELSE [distances |-> [s.distances EXCEPT ![k] = Abs(dist[1])],
          speeds |-> [s.speeds EXCEPT ![k] = ctx[ids[1]].k64],
          signals |-> [s.signals EXCEPT ![k] = ctx[ids[1]].k91]]

\* the branch taken when veh_edge is 'gneE1_0' or ':gneJ1_0_0'
MergeRegime(veh_pos, all_vehs_around, ctx) ==
    LET all_vehs_merge ==
            SelectSeq2(all_vehs_around,
                       {a \in DOMAIN ctx : ctx[a].k81 = <<"gneE1", 0>>})
        DISTx_merge ==
            [i \in 1..Len(all_vehs_merge) |-> ctx[all_vehs_merge[i]].k66[1] - veh_pos[1]]
        idx == 1..Len(all_vehs_merge)
        dist_ahead == MinOrEmpty({DISTx_merge[i] : i \in {k \in idx : DISTx_merge[k] > 0}})
        dist_behind == MaxOrEmpty({DISTx_merge[i] : i \in {k \in idx : DISTx_merge[k] < 0}})
        veh_id_ahead ==
            SelectSeq2(all_vehs_merge,
                       {all_vehs_merge[i] : i \in {k \in idx : <<DISTx_merge[k]>> = dist_ahead}})
        veh_id_behind ==
            SelectSeq2(all_vehs_merge,
                       {all_vehs_merge[i] : i \in {k \in idx : <<DISTx_merge[k]>> = dist_behind}})
        s1 == WriteSlot(InitSlots, 3, dist_ahead, veh_id_ahead, ctx)
    IN  WriteSlot(s1, 4, dist_behind, veh_id_behind, ctx)

\* the if / elif / elif over the tolerance bands; NoLane when none is taken
LaneCentre(veh_pos) ==
    IF -750 - 150 < veh_pos[2] /\ veh_pos[2] < -750 + 150 THEN -750
    ELSE IF -450 - 150 < veh_pos[2] /\ veh_pos[2] < -450 + 150 THEN -450
    ELSE IF -150 - 150 < veh_pos[2] /\ veh_pos[2] < -150 + 150 THEN -150
    ELSE NoLane

\* veh_lane = Y_ML.index(v_y), 0-based
LaneIndexOf(v_y) == (CHOOSE i \in 1..3 : Y_ML[i] = v_y) - 1

\* [Y_ML[a] for a in [veh_lane - 1, veh_lane, veh_lane + 1] if -1 < a < 3]
LanesCons(veh_lane) ==
    LET cand == <<veh_lane - 1, veh_lane, veh_lane + 1>>
        pick(a) == IF -1 < a /\ a < 3 THEN <<Y_ML[a + 1]>> ELSE <<>>
    IN  pick(cand[1]) \o pick(cand[2]) \o pick(cand[3])

\* which pair of slots one pass of the loop writes: the sign of y - veh_pos[1]
SlotBase(y, veh_pos) ==
    IF y - veh_pos[2] > 0 THEN 1
    ELSE IF y - veh_pos[2] = 0 THEN 3
    ELSE 5

\* one pass of "for y in lanes_cons"
LanePass(s, y, veh_pos, all_vehs_around, ctx) ==
    LET idx == 1..Len(all_vehs_around)
        DISTx == [i \in idx |-> <<ctx[all_vehs_around[i]].k66[1] - veh_pos[1],
                                  ctx[all_vehs_around[i]].k66[2]>>]
        dist_ahead ==
            MinOrEmpty({DISTx[i][1] :
                i \in {k \in idx : DISTx[k][1] > 0 /\ Abs(DISTx[k][2] - y) < 10}})
        dist_behind ==
            MaxOrEmpty({DISTx[i][1] :
                i \in {k \in idx : DISTx[k][1] < 0 /\ Abs(DISTx[k][2] - y) < 10}})
        veh_id_ahead ==
            SelectSeq2(all_vehs_around,
                       {all_vehs_around[i] : i \in {k \in idx : <<DISTx[k][1]>> = dist_ahead}})
        veh_id_behind ==
            SelectSeq2(all_vehs_around,
                       {all_vehs_around[i] : i \in {k \in idx : <<DISTx[k][1]>> = dist_behind}})
        base == SlotBase(y, veh_pos)
        s1 == WriteSlot(s, base, dist_ahead, veh_id_ahead, ctx)
    IN  WriteSlot(s1, base + 1, dist_behind, veh_id_behind, ctx)

RECURSIVE LaneLoop(_, _, _, _, _)
LaneLoop(s, lanes, veh_pos, all_vehs_around, ctx) ==
    IF lanes = <<>> THEN s
    ELSE LaneLoop(LanePass(s, Head(lanes), veh_pos, all_vehs_around, ctx),
                  Tail(lanes), veh_pos, all_vehs_around, ctx)

\* the else branch: three-lane mainline
MultiLaneRegime(veh_pos, all_vehs_around, ctx) ==
    LaneLoop(InitSlots, LanesCons(LaneIndexOf(LaneCentre(veh_pos))),
             veh_pos, all_vehs_around, ctx)

\* mutant of CapDist: a missing lane marked 0, as the comment above the post-pass says
CapDist_Zero(a) == IF a < 15000 THEN a ELSE 0

\* [a if a < 150 else -1 for a in ...] and [a if a < 50 else -1 for a in ...]
CapDist(a) == IF a < 15000 THEN a ELSE -100

CapSpeed(a) == IF a < 5000 THEN a ELSE -100

CapSlots(s, ks) ==
    [distances |-> [k \in 1..6 |-> IF k \in ks THEN CapDist(s.distances[k])
                                   ELSE s.distances[k]],
     speeds |-> [k \in 1..6 |-> IF k \in ks THEN CapSpeed(s.speeds[k])
                                ELSE s.speeds[k]],
     signals |-> s.signals]

IsMergeEdge(veh_edge) == veh_edge = <<"gneE1", 0>> \/ veh_edge = <<":gneJ1_0", 0>>

\* the if / elif / elif after the regimes: lanes that do not exist
PostPass(s, veh_edge) ==
    IF IsMergeEdge(veh_edge) THEN CapSlots(s, {1, 2, 5, 6})
    ELSE IF veh_edge \in {<<"gneE0", 0>>, <<"gneE4", 0>>, <<"gneE5", 0>>, <<":gneJ6_0", 1>>}
        THEN CapSlots(s, {5, 6})
    ELSE IF veh_edge \in {<<"gneE0", 1>>, <<"gneE4", 2>>, <<"gneE5", 1>>,
                          <<":gneJ1_1", 1>>, <<":gneJ6_0", 2>>}
        THEN CapSlots(s, {1, 2})
    ELSE s

\* the exception getInputs2FIS raises for veh = [0, veh_name, ctx], "" when it returns
InputsRaise(veh_name, ctx) ==
    IF veh_name \notin DOMAIN ctx THEN "KeyError"
    ELSE IF ~IsMergeEdge(VehEdge(veh_name, ctx)) /\ LaneCentre(ctx[veh_name].k66) = NoLane
        THEN "UnboundLocalError"
    ELSE ""

\* allInputs = distances + speeds + signals + list(veh_pos) + [veh_speed]
getInputs2FIS(veh_name, ctx) ==
    LET veh_edge == VehEdge(veh_name, ctx)
        veh_speed == ctx[veh_name].k64
        veh_pos == ctx[veh_name].k66
        all_vehs_around == SortedSeq(DOMAIN ctx \ {veh_name})
        s == IF IsMergeEdge(veh_edge)
             THEN MergeRegime(veh_pos, all_vehs_around, ctx)
             ELSE MultiLaneRegime(veh_pos, all_vehs_around, ctx)
        t == PostPass(s, veh_edge)
    IN  t.distances \o t.speeds \o t.signals \o veh_pos \o <<veh_speed>>

(***************************************************************************)
(* MergeDecisionEngine: getBestMergePosition, getDesiredSpeed_pl,          *)
(* getDesiredSpeed_m.  The three fuzzy models are opaque: an evaluation    *)
(* answers any value of its range, or raises.                              *)
(***************************************************************************)
Scores == 0..MaxScore               \* what gfs_pl_score.eval_op may answer

Outputs == {0, 37, 50, 100}         \* outs[0] of a speed model, in hundredths

NoResult == [leadVeh |-> NoVehicle, rearVeh |-> NoVehicle, best_id |-> -1, des_speed |-> 0]

\* mutant of InMiddleLane: no lane filter, every platoon member is a candidate
InMiddleLane_NoFilter(v) == TRUE

\* abs(manager.vehicle.get_location().y - 4.5) < 1.5
InMiddleLane(v) == Abs(world[v].y - 450) < 150

\* platoon_vehicles / platoon_vehicle_managers: the same filter, the same order
PlatoonVehicles == SelectSeq2(platoon, {v \in Vehicles : InMiddleLane(v)})

platoon_length == Len(PlatoonVehicles)

\* the candidate leader and rear of slot jj (0-based), NoVehicle at an open end
SlotLead(pv, jj) == IF jj = 0 THEN NoVehicle ELSE pv[jj]

SlotRear(pv, jj) == IF jj = Len(pv) /\ jj # 0 THEN NoVehicle ELSE pv[jj + 1]

\* rear = platoon_vehicles[j] with j == 0 on an empty list
SlotRaises(pv, jj) == jj = 0 /\ Len(pv) = 0

\* leadPos[0], leadSpeed (rearPos[0], rearSpeed): [500, 500] and 50 at an open end
EndPosX(v) == IF v = NoVehicle THEN 50000 ELSE getPosition(v)[1]

EndSpeed(v) == IF v = NoVehicle THEN 5000 ELSE get_speed(v)

\* full_list2 of slot jj
FullList2(inp, pv, jj) ==
    SubSeq(inp, 1, 4) \o SubSeq(inp, 7, 10) \o SubSeq(inp, 13, 16)
        \o <<inp[19]>> \o <<inp[21]>>
        \o <<EndPosX(SlotLead(pv, jj))>> \o <<EndSpeed(SlotLead(pv, jj))>>
        \o <<EndPosX(SlotRear(pv, jj))>> \o <<EndSpeed(SlotRear(pv, jj))>>

\* mutant of BestId: the last index of the maximum instead of the first
BestId_Last(scores) ==
    LET m == Max({scores[i] : i \in 1..Len(scores)})
    IN  Max({i \in 1..Len(scores) : scores[i] = m}) - 1

\* all_scores.index(max(all_scores)), 0-based
BestId(scores) ==
    LET m == Max({scores[i] : i \in 1..Len(scores)})
    IN  Min({i \in 1..Len(scores) : scores[i] = m}) - 1

\* leadVeh, rearVeh for best_id out of platoon_vehicle_managers
LeadVeh(pv, best_id) == IF best_id = 0 THEN NoVehicle ELSE pv[best_id]

\* mutant of RearVeh: best_id == 0 treated like an inner slot shifted by one
RearVeh_Shifted(pv, best_id) ==
    IF best_id = Len(pv) THEN NoVehicle
    ELSE IF best_id + 2 <= Len(pv) THEN pv[best_id + 2]
    ELSE pv[best_id + 1]

RearVeh(pv, best_id) ==
    IF best_id = 0 THEN pv[1]
    ELSE IF best_id = Len(pv) THEN NoVehicle
    ELSE pv[best_id + 1]

\* mutant of Accln: the offset added instead of subtracted
Accln_Plus(out) == 355 * out + 9500

\* accln = 3.55 * outs[0] - 0.95, in units of 10^-4
Accln(out) == 355 * out - 9500

\* des_speed = cur_speed + accln * self.dt, in units of 10^-6
DesSpeed(cur_speed, accln) == cur_speed * 10000 + accln * dt

Frame == UNCHANGED <<world, platoon, sensor_range, dt>>

\* lines 65-71 (119-125, 134-140): veh_context = self.getContext(vehicle), then
\* inputs = self.getInputs2FIS([0, veh_name, veh_context]), which may raise
Sense(name) ==
    LET ctx == getContext(Ego)
    IN  /\ op' = name
        /\ context' = ctx
        /\ inputs' = IF InputsRaise(Ego, ctx) = "" THEN getInputs2FIS(Ego, ctx) ELSE <<>>

SenseRaises == InputsRaise(Ego, getContext(Ego))

\* getBestMergePosition up to the loop
MergeStart ==
    /\ pc = "idle"
    /\ Sense("getBestMergePosition")
    /\ pc' = IF SenseRaises = "" THEN "loop" ELSE "error"
    /\ err' = SenseRaises
    /\ j' = 0
    /\ evals' = <<>>
    /\ all_scores' = <<>>
    /\ UNCHANGED <<outs, result>>
    /\ Frame

\* one pass of "for j in range(platoon_length + 1)"
MergeEval ==
    /\ pc = "loop"
    /\ j < platoon_length + 1
    /\ IF SlotRaises(PlatoonVehicles, j)
       THEN /\ pc' = "error"
            /\ err' = "IndexError"
            /\ UNCHANGED <<j, evals, all_scores>>
       ELSE /\ evals' = Append(evals, FullList2(inputs, PlatoonVehicles, j))
            /\ \/ \E score \in Scores :
                     /\ all_scores' = Append(all_scores, score)
                     /\ j' = j + 1
                     /\ UNCHANGED <<pc, err>>
               \/ /\ pc' = "error"
                  /\ err' = "EvaluatorFailure"
                  /\ UNCHANGED <<j, all_scores>>
    /\ UNCHANGED <<op, context, inputs, outs, result>>
    /\ Frame

\* after the loop: best_id and the two handles
MergeFinish ==
    /\ pc = "loop"
    /\ j = platoon_length + 1
    /\ LET best_id == BestId(all_scores)
       IN  result' = [leadVeh |-> LeadVeh(PlatoonVehicles, best_id),
                      rearVeh |-> RearVeh(PlatoonVehicles, best_id),
                      best_id |-> best_id,
                      des_speed |-> 0]
    /\ pc' = "done"
    /\ UNCHANGED <<op, context, inputs, j, evals, all_scores, outs, err>>
    /\ Frame

\* getDesiredSpeed_pl and getDesiredSpeed_m differ in the model they evaluate only
DesiredSpeed(name) ==
    /\ Sense(name)
    /\ IF SenseRaises # ""
       THEN /\ pc' = "error"
            /\ err' = SenseRaises
            /\ UNCHANGED <<outs, result>>
       ELSE \/ \E out \in Outputs :
                  /\ outs' = <<out>>
                  /\ result' = [NoResult EXCEPT
                                   !.des_speed = DesSpeed(get_speed(Ego), Accln(out))]
                  /\ pc' = "done"
                  /\ err' = ""
            \/ /\ pc' = "error"
               /\ err' = "EvaluatorFailure"
               /\ UNCHANGED <<outs, result>>
    /\ UNCHANGED <<j, evals, all_scores>>
    /\ Frame

getDesiredSpeed_pl ==
    /\ pc = "idle"
    /\ DesiredSpeed("getDesiredSpeed_pl")

getDesiredSpeed_m ==
    /\ pc = "idle"
    /\ DesiredSpeed("getDesiredSpeed_m")

\* the control loop's next tick: the call is over, the engine keeps no state
Tick ==
    /\ pc \in {"done", "error"}
    /\ pc' = "idle"
    /\ op' = ""
    /\ context' = <<>>
    /\ inputs' = <<>>
    /\ j' = 0
    /\ evals' = <<>>
    /\ all_scores' = <<>>
    /\ outs' = <<>>
    /\ result' = NoResult
    /\ err' = ""
    /\ Frame

(***************************************************************************)
(* The worlds the calls are made in.  Road 1 is the three-lane merging     *)
(* area (gneE4), road 2 the merge lane (gneE1), road 99 is unmapped.       *)
(***************************************************************************)
\* the CARLA lane id of a vehicle on `road` at lateral position y
LaneIdAt(road, y) ==
    IF road = 2 THEN -2
    ELSE IF road = 1 THEN (IF y > 600 THEN -4 ELSE IF y > 300 THEN -3 ELSE -2)
    ELSE -1

Vehicle(x, y, speed, road, light) ==
    [x |-> x, y |-> y, speed |-> speed, road_id |-> road,
     lane_id |-> LaneIdAt(road, y), light |-> light]

\* the controlled vehicle: in the middle lane, or on the open boundary of its band
EgoStates == {Vehicle(10000, y, 1000, 1, "NONE") : y \in {450, 300}}

\* a platoon candidate: each at its own place and speed (front to back); in the
\* middle lane, in the left lane, or on the open boundary of the middle band
OtherStates(v) ==
    {Vehicle(12500 - 1000 * v, y, 800 + 100 * v, 1, "NONE") : y \in {450, 150, 300}}

\* the actor list: the controlled vehicle e and the other vehicles o
WorldOf(e, o) == [v \in {Ego} \cup DOMAIN o |-> IF v = Ego THEN e ELSE o[v]]

Worlds ==
    {WorldOf(e, o) :
        e \in EgoStates,
        o \in {f \in [1..NumOthers -> UNION {OtherStates(v) : v \in 1..NumOthers}] :
                  \A v \in 1..NumOthers : f[v] \in OtherStates(v)}}

\* the platoon is a prefix of the other vehicles, front to back
Platoons == {[i \in 1..k |-> i] : k \in 0..NumOthers}

InitCall ==
    /\ pc = "idle"
    /\ op = ""
    /\ context = <<>>
    /\ inputs = <<>>
    /\ j = 0
    /\ evals = <<>>
    /\ all_scores = <<>>
    /\ outs = <<>>
    /\ result = NoResult
    /\ err = ""

Init ==
    /\ world \in Worlds
    /\ platoon \in Platoons
    /\ sensor_range = 15000
    /\ dt \in {5, 100}
    /\ InitCall

Next ==
    \/ MergeStart
    \/ MergeEval
    \/ MergeFinish
    \/ getDesiredSpeed_pl
    \/ getDesiredSpeed_m
    \/ Tick

Spec == Init /\ [][Next]_vars

(***************************************************************************)
(* The feature extractor on its own: getContext followed by getInputs2FIS, *)
(* as every public operation calls them, over a wider set of worlds.       *)
(***************************************************************************)
Extract ==
    /\ pc = "idle"
    /\ Sense("getInputs2FIS")
    /\ pc' = IF SenseRaises = "" THEN "done" ELSE "error"
    /\ err' = SenseRaises
    /\ UNCHANGED <<j, evals, all_scores, outs, result>>
    /\ Frame

\* the controlled vehicle: on the mainline at a lane centre, off centre inside the
\* middle band or on the open boundary between two bands; on the merge lane; on an
\* unmapped road
EgoStatesX ==
    {Vehicle(10000, y, 1000, 1, "NONE") : y \in {150, 400, 450, 750, 300}}
        \cup {Vehicle(10000, 450, 1000, road, "NONE") : road \in {2, 99}}

\* speed, light and road of neighbour v: each neighbour has its own, so that a
\* speed or a signal in the feature vector tells whose it is
Profile(v) ==
    IF v = 1 THEN <<800, "Brake", 1>>
    ELSE IF v = 2 THEN <<5500, "LeftBlinker", 2>>
    ELSE <<1200, "RightBlinker", 99>>

\* a neighbour: behind, ahead, further ahead or 150 m ahead; at a lane centre or
\* 5 cm off it
OtherStatesX(v) ==
    {Vehicle(x, y, Profile(v)[1], Profile(v)[3], Profile(v)[2]) :
        x \in {8000, 11000, 12000, 25000}, y \in {150, 450, 455, 750}}

WorldsX ==
    {WorldOf(e, o) :
        e \in EgoStatesX,
        o \in {f \in [1..NumNeighbours -> UNION {OtherStatesX(v) : v \in 1..NumNeighbours}] :
                  \A v \in 1..NumNeighbours : f[v] \in OtherStatesX(v)}}

InitExtract ==
    /\ world \in WorldsX
    /\ platoon = <<>>
    /\ sensor_range \in {2000, 16000}
    /\ dt = 5
    /\ InitCall

NextExtract == Extract \/ Tick

SpecExtract == InitExtract /\ [][NextExtract]_vars

(***************************************************************************)
(* Claims about getBestMergePosition and the desired speeds, under Spec.   *)
(***************************************************************************)
Returned(name) == op = name /\ pc = "done"

\* the platoon members whose CARLA lateral position is within 1.5 of 4.5, in
\* platoon order
MiddleMembers ==
    SelectSeq2(platoon, {platoon[i] : i \in {k \in 1..Len(platoon) :
                                        Abs(world[platoon[k]].y - 450) < 150}})

\* C1 as stated: a call that returns has evaluated the slot scorer N + 1 times
\* and returns an index in [0, N], N being the number of platoon members
C1_AnyLane ==
    Returned("getBestMergePosition") =>
        /\ Len(evals) = Len(platoon) + 1
        /\ result.best_id \in 0..Len(platoon)

\* C1 amended: the slots are counted over the M middle-lane members.  Inside the
\* loop the evaluations and the scores number j, and the i-th evaluation is that
\* of slot i - 1 (its leader is member i - 1, its rear member i, the open ends at
\* x = 500); a call that returns has made M + 1 evaluations, one per slot 0..M,
\* and returns an index in [0, M]
C1_MiddleLaneSlots ==
    /\ pc = "loop" =>
          /\ j \in 0..(Len(MiddleMembers) + 1)
          /\ Len(evals) = j
          /\ Len(all_scores) = j
          /\ \A i \in 1..Len(evals) :
                /\ evals[i][15] = (IF i = 1 THEN 50000 ELSE world[MiddleMembers[i - 1]].x)
                /\ evals[i][17] = (IF i = Len(MiddleMembers) + 1 THEN 50000
                                   ELSE world[MiddleMembers[i]].x)
    /\ Returned("getBestMergePosition") =>
          /\ Len(evals) = Len(MiddleMembers) + 1
          /\ Len(all_scores) = Len(MiddleMembers) + 1
          /\ result.best_id \in 0..Len(MiddleMembers)

C1_Witness ==
    /\ Returned("getBestMergePosition")
    /\ Len(platoon) = 3
    /\ Len(MiddleMembers) = 2
    /\ Len(evals) = 3
    /\ result.best_id = 2

\* C2: with an empty platoon and a feature vector built, the call raises nothing
\* of its own and returns slot 0 with both handles null after one evaluation
C2_EmptyPlatoonReturns ==
    (op = "getBestMergePosition" /\ platoon = <<>> /\ inputs # <<>>) =>
        /\ err \in {"", "EvaluatorFailure"}
        /\ pc = "done" =>
              /\ Len(evals) = 1
              /\ result.best_id = 0
              /\ result.leadVeh = NoVehicle
              /\ result.rearVeh = NoVehicle

\* C4: a call ends in an error only when an evaluator failed
C4_OnlyEvaluatorFailureHalts == pc = "error" => err = "EvaluatorFailure"

\* C5: the returned index holds a maximal score and no lower index does
C5_FirstMaximum ==
    Returned("getBestMergePosition") =>
        LET b == result.best_id + 1
        IN  /\ b \in 1..Len(all_scores)
            /\ \A i \in 1..Len(all_scores) :
                  /\ all_scores[b] >= all_scores[i]
                  /\ i < b => all_scores[i] < all_scores[b]

C5_Witness ==
    /\ Returned("getBestMergePosition")
    /\ all_scores = <<0, 1, 0, 1>>
    /\ result.best_id = 1

\* C7: des_speed = cur_speed + (3.55 * out - 0.95) * dt for both speed models;
\* out = 0.0 gives -0.95, out = 1.0 gives 2.60, and the acceleration for an
\* output in [0, 1] lies in [-4.5, 2.6]
C7_DesiredSpeed ==
    (op \in {"getDesiredSpeed_pl", "getDesiredSpeed_m"} /\ pc = "done") =>
        LET out == outs[1]
            cur == world[Ego].speed * 10000
            acc == 355 * out - 9500
        IN  /\ result.des_speed = cur + acc * dt
            /\ out = 0 => result.des_speed = cur - 9500 * dt
            /\ out = 100 => result.des_speed = cur + 26000 * dt
            /\ (0 <= out /\ out <= 100) =>
                  /\ cur - 45000 * dt <= result.des_speed
                  /\ result.des_speed <= cur + 26000 * dt

C7_Witness ==
    /\ Returned("getDesiredSpeed_m")
    /\ outs = <<100>>
    /\ dt = 100
    /\ result.des_speed = 1000 * 10000 + 26000 * 100

\* the x position and the speed a slot vector carries for a handle
HandleX(v) == IF v = NoVehicle THEN 50000 ELSE world[v].x

HandleSpeed(v) == IF v = NoVehicle THEN 5000 ELSE world[v].speed

\* the scored vector of the returned slot carries the returned handles
ScoredWithHandles ==
    LET e == evals[result.best_id + 1]
    IN  /\ e[15] = HandleX(result.leadVeh)
        /\ e[16] = HandleSpeed(result.leadVeh)
        /\ e[17] = HandleX(result.rearVeh)
        /\ e[18] = HandleSpeed(result.rearVeh)

\* C8 as stated: the handles are those of slot b over the platoon's vehicles, and
\* two non-null handles are consecutive members of the platoon
C8_OverPlatoon ==
    Returned("getBestMergePosition") =>
        LET b == result.best_id
            N == Len(platoon)
        IN  /\ b = 0 => result.leadVeh = NoVehicle /\ result.rearVeh = platoon[1]
            /\ (b = N /\ b # 0) => result.leadVeh = platoon[N] /\ result.rearVeh = NoVehicle
            /\ (0 < b /\ b < N) => result.leadVeh = platoon[b] /\ result.rearVeh = platoon[b + 1]
            /\ ScoredWithHandles
            /\ (result.leadVeh # NoVehicle /\ result.rearVeh # NoVehicle) =>
                  \E i \in 1..(N - 1) :
                      platoon[i] = result.leadVeh /\ platoon[i + 1] = result.rearVeh

\* C8 amended: the same over the M middle-lane members in platoon order; two
\* non-null handles are consecutive among the middle-lane members
C8_OverMiddleMembers ==
    Returned("getBestMergePosition") =>
        LET b == result.best_id
            mm == MiddleMembers
            M == Len(mm)
        IN  /\ M >= 1
            /\ b = 0 => result.leadVeh = NoVehicle /\ result.rearVeh = mm[1]
            /\ b = M => result.leadVeh = mm[M] /\ result.rearVeh = NoVehicle
            /\ (0 < b /\ b < M) => result.leadVeh = mm[b] /\ result.rearVeh = mm[b + 1]
            /\ ScoredWithHandles

\* platoon 1, 2, 3 with 2 outside the middle lane: slot 1 lies between 1 and 3
C8_Witness ==
    /\ Returned("getBestMergePosition")
    /\ platoon = <<1, 2, 3>>
    /\ MiddleMembers = <<1, 3>>
    /\ result.best_id = 1
    /\ result.leadVeh = 1
    /\ result.rearVeh = 3

(***************************************************************************)
(* Claims about getContext and getInputs2FIS, under SpecExtract.           *)
(***************************************************************************)
\* the sensed vehicles other than the controlled one, its position, and the signed
\* longitudinal offset of a neighbour
Neighbours == DOMAIN context \ {Ego}

OwnPos == context[Ego].k66

OffsetX(v) == context[v].k66[1] - OwnPos[1]

\* the centre of the tolerance band the own lateral position lies in
OwnCentre == CHOOSE c \in {-750, -450, -150} : Abs(OwnPos[2] - c) < 150

\* the own lane and the lanes next to it
NearLanes == {c \in {-750, -450, -150} : Abs(c - OwnCentre) <= 300}

\* slots 1..6: left ahead, left behind, same ahead, same behind, right ahead, right
\* behind.  The slot of a neighbour with offset dx in the lane of centre c, the
\* side taken relative to the lateral position `from`
SlotFor(c, dx, from) ==
    (IF c > from THEN 1 ELSE IF c = from THEN 3 ELSE 5) + (IF dx > 0 THEN 0 ELSE 1)

\* the neighbours of slot k, the side of a lane taken relative to `from`
SlotNeighbours(k, from) ==
    {v \in Neighbours :
        /\ OffsetX(v) # 0
        /\ \E c \in NearLanes :
              /\ Abs(context[v].k66[2] - c) < 10
              /\ SlotFor(c, OffsetX(v), from) = k}

\* the extractor found no neighbour for slot k: the side is the sign of
\* laneCentre - ownLateral
NothingFound(k) == SlotNeighbours(k, OwnPos[2]) = {}

DistSq(v) ==
    (world[v].x - world[Ego].x) * (world[v].x - world[Ego].x)
        + (world[Ego].y - world[v].y) * (world[Ego].y - world[v].y)

\* C6 as stated: a key iff within the radius and not the reference vehicle
C6_ExcludesReference ==
    op # "" =>
        \A v \in Vehicles :
            v \in DOMAIN context <=> (v # Ego /\ DistSq(v) <= sensor_range * sensor_range)

\* C6 amended: a key iff within the radius; the reference vehicle, at distance 0,
\* is always a key
C6_WithinRadius ==
    op # "" =>
        /\ \A v \in Vehicles :
              v \in DOMAIN context <=> DistSq(v) <= sensor_range * sensor_range
        /\ Ego \in DOMAIN context

\* one vehicle exactly at the radius is sensed, another one is out of range
C6_Witness ==
    /\ op # ""
    /\ \E v \in Neighbours : DistSq(v) = sensor_range * sensor_range
    /\ \E v \in Vehicles : v \notin DOMAIN context

\* C9: on the merge-approach segment the left and right slots hold -1 whatever is
\* in the other lanes, and same-lane ahead is the nearest neighbour ahead on the
\* merge-approach segment
C9_RegimeFromSnapshot ==
    (Returned("getInputs2FIS")
        /\ context[Ego].k81 \in {<<"gneE1", 0>>, <<":gneJ1_0", 0>>}) =>
        LET ahead == {OffsetX(v) : v \in {w \in Neighbours :
                          context[w].k81 = <<"gneE1", 0>> /\ OffsetX(w) > 0}}
        IN  /\ \A k \in {1, 2, 5, 6} : inputs[k] = -100 /\ inputs[6 + k] = -100
            /\ inputs[3] = (IF ahead = {} THEN 15000 ELSE Min(ahead))

\* C10: for an own position inside a band, each slot that has neighbours, the side
\* of a lane taken relative to the own lane centre, holds the distance of the
\* nearest of them
C10_SlotsByLane ==
    Returned("getInputs2FIS") =>
        \A k \in 1..6 :
            LET ns == SlotNeighbours(k, OwnCentre)
            IN  ns # {} => inputs[k] = Min({Abs(OffsetX(v)) : v \in ns})

\* C11: a left or right slot for which a neighbour was found still holds, in the
\* returned vector, the distance of one of that slot's neighbours and the speed of
\* a sensed vehicle, also when that distance is 150 or more or that speed 50 or more
C11_PostPassKeepsMeasured ==
    Returned("getInputs2FIS") =>
        \A k \in {1, 2, 5, 6} :
            ~NothingFound(k) =>
                /\ inputs[k] \in {Abs(OffsetX(v)) : v \in SlotNeighbours(k, OwnPos[2])}
                /\ inputs[6 + k] \in {context[v].k64 : v \in Neighbours}

\* the sensed vehicles of the lane of centre c ahead (ahead = TRUE) or behind
LaneSide(c, ahead) ==
    {v \in Neighbours :
        /\ Abs(context[v].k66[2] - c) < 10
        /\ IF ahead THEN OffsetX(v) > 0 ELSE OffsetX(v) < 0}

\* C12: a slot the post-pass left alone holds the distance, the speed and the
\* signal of one vehicle of that slot's lane: the distance is the smallest absolute
\* offset among the lane's vehicles on that side, the speed and the signal are
\* those of a vehicle of that lane at that offset
C12_SlotOfOneVehicle ==
    Returned("getInputs2FIS") =>
        \A k \in 1..6 :
            (~NothingFound(k) /\ inputs[k] # -100 /\ inputs[6 + k] # -100) =>
                \E c \in NearLanes :
                    LET side == LaneSide(c, k \in {1, 3, 5})
                    IN  /\ side # {}
                        /\ SlotFor(c, IF k \in {1, 3, 5} THEN 1 ELSE -1, OwnPos[2]) = k
                        /\ inputs[k] = Min({Abs(OffsetX(v)) : v \in side})
                        /\ \E v \in side :
                              /\ Abs(OffsetX(v)) = inputs[k]
                              /\ inputs[6 + k] = context[v].k64
                              /\ inputs[12 + k] = context[v].k91

====
